---- MODULE Spec2Model ----
(***************************************************************************)
(* Luxury Chocolates API (src/main.py, src/schemas.py).                    *)
(*                                                                         *)
(* The state is the two MongoDB collections the handlers use ("product"    *)
(* and "order"), the ObjectId generator, and one record per request        *)
(* worker.  FastAPI runs the synchronous handlers on a thread pool, so     *)
(* requests overlap; a handler is a sequence of store calls, and every     *)
(* action below is one store call of one request together with the Python  *)
(* code that runs up to the next store call (or up to the response).       *)
(***************************************************************************)
EXTENDS Integers, Sequences, FiniteSets, TLC

VARIABLES
    products,   \* db["product"]: ObjectId -> product document
    orders,     \* db["order"]:   ObjectId -> order document
    nextOid,    \* the next ObjectId the generator hands out
    pc,         \* per worker: where its request stands
    req,        \* per worker: the request body being served
    loc,        \* per worker: the handler's local variables
    resp,       \* per worker: the last response sent
    nreq        \* requests accepted so far

vars == <<products, orders, nextOid, pc, req, loc, resp, nreq>>

----------------------------------------------------------------------------
(* Bounds of the model. *)

\* requests accepted in one run
MaxRequests == 2
\* longest "items" list of a checkout request
MaxItems == 2

\* request workers of the thread pool
Workers == {1, 2}

----------------------------------------------------------------------------
(* Identifiers.  An ObjectId is a positive integer; its string form is the  *)
(* pair <<"hex", n>>.  A string that is not 24 hex digits is <<"bad", 0>>.  *)

\* a well-formed ObjectId no document carries
NoOid == 0

StrOf(oid) == <<"hex", oid>>

BadIdStr == <<"bad", 0>>

\* bson.ObjectId(s) raises InvalidId unless s is a well-formed id string
IsValidId(s) == s[1] = "hex"

\* bson.ObjectId(s) for a well-formed s
ObjectId(s) == s[2]


\* a slip: the same token for every order
MockSecretBug(oid) == <<"mock_secret", 1>>

\* f"mock_secret_{ObjectId()}"
MockSecret(oid) == <<"mock_secret", oid>>

WrongSecret == <<"mock_secret", NoOid>>

----------------------------------------------------------------------------
(* Documents. *)

\* the list "data" of seed_products (description, image and tags are fixed
\* text that goes with the name)
SeedData ==
    << [name |-> "Grand Cru Truffle Box", price_cents |-> 8900,
        cacao_percent |-> 72, in_stock |-> TRUE, stock_qty |-> 50],
       [name |-> "Single-Origin Noir Bar", price_cents |-> 1500,
        cacao_percent |-> 85, in_stock |-> TRUE, stock_qty |-> 200],
       [name |-> "Praline Jewels", price_cents |-> 4200,
        cacao_percent |-> 64, in_stock |-> TRUE, stock_qty |-> 120] >>

\* bodies of POST /api/products that pass the Product validation
ProductInputs ==
    { [name |-> "Custom", price_cents |-> 700, cacao_percent |-> 70,
       in_stock |-> TRUE, stock_qty |-> 1],
      [name |-> "Custom", price_cents |-> 700, cacao_percent |-> 70,
       in_stock |-> FALSE, stock_qty |-> 0] }

NoCustomer == "None"

\* the customer record a checkout request carries
Customers == {"alice"}

EmptyMap == [x \in {} |-> x]

\* pymongo insert_one: the collection with one more document
InsertOne(coll, oid, doc) == coll @@ (oid :> doc)

\* pymongo find_one({"_id": oid}) returns a document (not None)
Found(coll, oid) == oid \in DOMAIN coll

\* pymongo find_one({"_id": oid}) when it returns a document
FindOne(coll, oid) == coll[oid]

\* a slip: only a pending order is updated (the first confirmation wins)
UpdateOneStatusPending(coll, oid, s) ==
    IF oid \in DOMAIN coll /\ coll[oid].status = "pending"
      THEN [coll EXCEPT ![oid].status = s]
      ELSE coll

\* a slip: the update also drops the customer record
UpdateOneStatusBug(coll, oid, s) ==
    IF oid \in DOMAIN coll
      THEN [coll EXCEPT ![oid].status = s, ![oid].customer = NoCustomer]
      ELSE coll

\* pymongo update_one({"_id": oid}, {"$set": {"status": s}})
UpdateOneStatus(coll, oid, s) ==
    IF oid \in DOMAIN coll THEN [coll EXCEPT ![oid].status = s] ELSE coll

\* pymongo count_documents({})
CountDocuments(coll) == Cardinality(DOMAIN coll)

\* database.create_document(collection, record): the record stored under a
\* new id
CreateDocument(coll, oid, record) == InsertOne(coll, oid, record)

----------------------------------------------------------------------------
(* Request workers. *)

Free(t) == pc[t] \in {"idle", "done"}

NoReq == [kind |-> "none"]

NoLoc == [i |-> 1, total |-> 0, prepared |-> <<>>, pid |-> BadIdStr]

NoResp == [op |-> "none", code |-> 0]

\* the handler of worker t returns (or raises) a response
Respond(t, r) ==
    /\ resp' = [resp EXCEPT ![t] = r]
    /\ pc' = [pc EXCEPT ![t] = "done"]
    /\ loc' = [loc EXCEPT ![t] = NoLoc]
    /\ req' = [req EXCEPT ![t] = NoReq]

\* the handler of worker t goes on to its next store call
Goto(t, label, l, r) ==
    /\ pc' = [pc EXCEPT ![t] = label]
    /\ resp' = [resp EXCEPT ![t] = NoResp]
    /\ loc' = [loc EXCEPT ![t] = l]
    /\ req' = [req EXCEPT ![t] = r]

\* raise HTTPException(status_code=code, detail=detail) in handler op; the
\* detail of a 500 is str(e) of the exception caught, which names what was
\* refused
HTTPError(op, code, detail) == [op |-> op, code |-> code, detail |-> detail]

\* The database outlives the process.  At start-up it is empty, or holds
\* what earlier runs left: the seeded catalog (ids 1..3), or the seeded
\* catalog and the pending order of one checkout of two Noir bars without a
\* customer record (secret from id 4, order id 5).
SeededCatalog == [i \in 1..3 |-> SeedData[i]]

EarlierOrder ==
    [items |-> << [product_id |-> StrOf(2), quantity |-> 2,
                   unit_price_cents |-> 1500, subtotal_cents |-> 3000] >>,
     currency |-> "usd", total_cents |-> 3000, status |-> "pending",
     client_secret |-> MockSecret(4), customer |-> NoCustomer]

StartDatabases ==
    { [product |-> EmptyMap, order |-> EmptyMap, nextOid |-> 1],
      [product |-> SeededCatalog, order |-> EmptyMap, nextOid |-> 4],
      [product |-> SeededCatalog, order |-> (5 :> EarlierOrder), nextOid |-> 6] }

Init ==
    /\ \E d \in StartDatabases :
         /\ products = d.product
         /\ orders = d.order
         /\ nextOid = d.nextOid
    /\ pc = [t \in Workers |-> "idle"]
    /\ req = [t \in Workers |-> NoReq]
    /\ loc = [t \in Workers |-> NoLoc]
    /\ resp = [t \in Workers |-> NoResp]
    /\ nreq = 0

\* a request is accepted by a free worker
Accept(t) ==
    /\ Free(t)
    /\ nreq < MaxRequests
    /\ nreq' = nreq + 1

----------------------------------------------------------------------------
(* POST /api/seed *)

SeedReq(force) == [kind |-> "seed", force |-> force]

\* a slip: a catalog of one product is taken for empty
SeedSkipsBug(count, force) == count > 1 /\ ~force

\* if count > 0 and not payload.force
SeedSkips(count, force) == count > 0 /\ ~force

\* count = db["product"].count_documents({}) and the early return
SeedCount(t, force) ==
    /\ Accept(t)
    /\ LET count == CountDocuments(products) IN
       IF SeedSkips(count, force)
         THEN Respond(t, [op |-> "seed", code |-> 200, seeded |-> FALSE,
                          count |-> count])
         ELSE Goto(t, IF force THEN "seed_delete" ELSE "seed_insert", NoLoc,
                   SeedReq(force))
    /\ UNCHANGED <<products, orders, nextOid>>

\* db["product"].delete_many({})
SeedDelete(t) ==
    /\ pc[t] = "seed_delete"
    /\ products' = EmptyMap
    /\ Goto(t, "seed_insert", loc[t], req[t])
    /\ UNCHANGED <<orders, nextOid, nreq>>

\* one db["product"].insert_one(p) of the loop over data
SeedInsert(t) ==
    /\ pc[t] = "seed_insert"
    /\ products' = InsertOne(products, nextOid, SeedData[loc[t].i])
    /\ nextOid' = nextOid + 1
    /\ Goto(t, IF loc[t].i < Len(SeedData) THEN "seed_insert" ELSE "seed_return",
            [loc[t] EXCEPT !.i = @ + 1], req[t])
    /\ UNCHANGED <<orders, nreq>>

\* return {"seeded": True, "count": db["product"].count_documents({})}
SeedReturn(t) ==
    /\ pc[t] = "seed_return"
    /\ Respond(t, [op |-> "seed", code |-> 200, seeded |-> TRUE,
                   count |-> CountDocuments(products)])
    /\ UNCHANGED <<products, orders, nextOid, nreq>>

----------------------------------------------------------------------------
(* POST /api/products *)

CreateReq(p) == [kind |-> "create_product", product |-> p]

\* a slip: stock_qty not copied, so that the default of Product (20) shows
ProductOutBug(oid, doc) ==
    [id |-> StrOf(oid), name |-> doc.name, price_cents |-> doc.price_cents,
     cacao_percent |-> doc.cacao_percent, in_stock |-> doc.in_stock,
     stock_qty |-> 20]

\* ProductOut(**doc_out): the stored fields and the id as a string
ProductOut(oid, doc) ==
    [id |-> StrOf(oid), name |-> doc.name, price_cents |-> doc.price_cents,
     cacao_percent |-> doc.cacao_percent, in_stock |-> doc.in_stock,
     stock_qty |-> doc.stock_qty]

\* pid = create_document("product", product)
CreateInsert(t, p) ==
    /\ Accept(t)
    /\ products' = CreateDocument(products, nextOid, p)
    /\ nextOid' = nextOid + 1
    /\ Goto(t, "create_find", [NoLoc EXCEPT !.pid = StrOf(nextOid)], CreateReq(p))
    /\ UNCHANGED orders

\* a slip: an HTTPException keeps its own status, as under the
\* "except HTTPException: raise" of checkout
CaughtInCreateBug(code) == code

\* the status create_product answers when its try block raises an exception
\* of status code: "except Exception" catches HTTPException too and raises 500
CaughtInCreate(code) == 500

\* doc = db["product"].find_one({"_id": ObjectId(pid)}) and the response; the
\* HTTPException(404) raised inside the try is caught by "except Exception"
CreateFind(t) ==
    /\ pc[t] = "create_find"
    /\ LET oid == ObjectId(loc[t].pid) IN
       IF ~Found(products, oid)
         THEN Respond(t, HTTPError("create_product", CaughtInCreate(404),
                                   <<"404: Product not found after creation">>))
         ELSE Respond(t, [op |-> "create_product", code |-> 200,
                          product |-> ProductOut(oid, FindOne(products, oid))])
    /\ UNCHANGED <<products, orders, nextOid, nreq>>

----------------------------------------------------------------------------
(* GET /api/products *)

\* .limit(100)
ListLimit == 100

\* the documents db["product"].find({}).limit(100) may yield: all of them, or
\* 100 of them (the store does not say which when there are more)
FindLimited(coll) ==
    IF Cardinality(DOMAIN coll) <= ListLimit
      THEN {DOMAIN coll}
      ELSE {S \in SUBSET DOMAIN coll : Cardinality(S) = ListLimit}

\* list_products: one find, every document turned into a ProductOut (the
\* response is kept as a set: the order of the list is the store's).  The
\* handler writes nothing and takes no id, so it is not counted in nreq.
ListProducts(t) ==
    /\ Free(t)
    /\ \E S \in FindLimited(products) :
         Respond(t, [op |-> "list_products", code |-> 200,
                     products |-> {ProductOut(o, FindOne(products, o)) : o \in S}])
    /\ UNCHANGED <<products, orders, nextOid, nreq>>

----------------------------------------------------------------------------
(* POST /api/checkout *)

CheckoutItem(pid, q) == [product_id |-> pid, quantity |-> q]

\* items a checkout request may carry: the first two ids the generator hands
\* out (in the catalog or not) and a malformed id string; CheckoutItem.quantity
\* is any int, so 0 passes the request validation
CheckoutItems ==
    { CheckoutItem(StrOf(1), 2), CheckoutItem(StrOf(2), 2),
      CheckoutItem(StrOf(2), 0), CheckoutItem(BadIdStr, 2) }

\* every list of at most n elements of S
RECURSIVE SeqsUpTo(_, _)
SeqsUpTo(S, n) ==
    IF n = 0 THEN {<<>>}
    ELSE LET shorter == SeqsUpTo(S, n - 1) IN
         shorter \cup {Append(s, x) : s \in {u \in shorter : Len(u) = n - 1}, x \in S}

CheckoutReq(items, customer) ==
    [kind |-> "checkout", items |-> items, customer |-> customer]

\* a slip: quantity declared ge=0
OrderItemValidBug(it) ==
    /\ it.quantity >= 0
    /\ it.unit_price_cents >= 0
    /\ it.subtotal_cents >= 0

\* schemas.OrderItem(...) passes its Field constraints
OrderItemValid(it) ==
    /\ it.quantity >= 1
    /\ it.unit_price_cents >= 0
    /\ it.subtotal_cents >= 0

\* schemas.Order(...) passes its Field constraints
OrderValid(o) == o.total_cents >= 0

\* a slip: sum for product
SubtotalBug(price_cents, quantity) == price_cents + quantity

\* subtotal = price_cents * it.quantity
Subtotal(price_cents, quantity) == price_cents * quantity

\* a slip: "=" for "+="
AddTotalBug(total, subtotal) == subtotal

\* total += subtotal
AddTotal(total, subtotal) == total + subtotal

\* a slip: the last piece in stock is not sold
UnavailableBug(coll, oid) ==
    ~Found(coll, oid) \/ ~FindOne(coll, oid).in_stock \/ FindOne(coll, oid).stock_qty <= 1

\* not doc or not doc.get("in_stock", False)
Unavailable(coll, oid) == ~Found(coll, oid) \/ ~FindOne(coll, oid).in_stock

\* one iteration of the loop of compute_totals: the find_one of item l.i and
\* what follows it, up to the next find_one
ComputeTotalsItem(t, r, l) ==
    LET it == r.items[l.i] IN
    IF ~IsValidId(it.product_id)
      THEN Respond(t, HTTPError("checkout", 500, <<"InvalidId", it.product_id>>))
    ELSE
    LET oid == ObjectId(it.product_id) IN
    IF Unavailable(products, oid)
      THEN Respond(t, HTTPError("checkout", 400,
                                <<"Product unavailable", it.product_id>>))
    ELSE
    LET price_cents == FindOne(products, oid).price_cents
        subtotal == Subtotal(price_cents, it.quantity)
        item == [product_id |-> StrOf(oid), quantity |-> it.quantity,
                 unit_price_cents |-> price_cents, subtotal_cents |-> subtotal]
    IN  IF ~OrderItemValid(item)
          THEN Respond(t, HTTPError("checkout", 500,
                                    <<"ValidationError", "OrderItem", item>>))
          ELSE Goto(t, "checkout",
                    [l EXCEPT !.i = @ + 1, !.total = AddTotal(@, subtotal),
                              !.prepared = Append(@, item)], r)

\* checkout after compute_totals returned: the secret, the Order, its
\* create_document and the response
CheckoutPersist(t, r, l) ==
    LET mock_client_secret == MockSecret(nextOid)
        order_id == nextOid + 1
        order == [items |-> l.prepared, currency |-> "usd",
                  total_cents |-> l.total, status |-> "pending",
                  client_secret |-> mock_client_secret,
                  customer |-> r.customer]
    IN  IF ~OrderValid(order)
          THEN /\ Respond(t, HTTPError("checkout", 500,
                                       <<"ValidationError", "Order", order>>))
               /\ nextOid' = nextOid + 1
               /\ UNCHANGED orders
          ELSE /\ orders' = CreateDocument(orders, order_id, order)
               /\ nextOid' = nextOid + 2
               /\ Respond(t, [op |-> "checkout", code |-> 200,
                              order_id |-> StrOf(order_id),
                              client_secret |-> mock_client_secret,
                              amount_cents |-> l.total, currency |-> "usd",
                              status |-> "pending"])

\* the next store call of checkout for request r with locals l
CheckoutStep(t, r, l) ==
    IF l.i <= Len(r.items)
      THEN ComputeTotalsItem(t, r, l) /\ UNCHANGED <<orders, nextOid>>
      ELSE CheckoutPersist(t, r, l)

CheckoutStart(t, items, customer) ==
    /\ Accept(t)
    /\ CheckoutStep(t, CheckoutReq(items, customer), NoLoc)
    /\ UNCHANGED products

CheckoutNext(t) ==
    /\ pc[t] = "checkout"
    /\ CheckoutStep(t, req[t], loc[t])
    /\ UNCHANGED <<products, nreq>>

----------------------------------------------------------------------------
(* POST /api/confirm-payment *)

ConfirmReq(order_id, client_secret, success) ==
    [kind |-> "confirm_payment", order_id |-> order_id,
     client_secret |-> client_secret, success |-> success]

\* order ids a confirmation may name
OrderRefs == {BadIdStr, StrOf(NoOid)} \cup {StrOf(o) : o \in DOMAIN orders}

\* secrets a confirmation may carry
SecretRefs == {WrongSecret} \cup {orders[o].client_secret : o \in DOMAIN orders}

\* a slip: a declined payment cancels the order
NewStatusCanceled(success) == IF success THEN "paid" ELSE "canceled"

\* a slip: success ignored
NewStatusBug(success) == "paid"

\* new_status = "paid" if req.success else "failed"
NewStatus(success) == IF success THEN "paid" ELSE "failed"

\* a slip: only the "mock_secret" prefix compared
SecretMatchesBug(doc, client_secret) == doc.client_secret[1] = client_secret[1]

\* not (doc.get("client_secret") != req.client_secret)
SecretMatches(doc, client_secret) == doc.client_secret = client_secret

\* doc = db["order"].find_one(...) and the two checks
ConfirmFind(t, order_id, client_secret, success) ==
    /\ Accept(t)
    /\ IF ~IsValidId(order_id)
         THEN Respond(t, HTTPError("confirm_payment", 500,
                                   <<"InvalidId", order_id>>))
       ELSE IF ~Found(orders, ObjectId(order_id))
         THEN Respond(t, HTTPError("confirm_payment", 404, <<"Order not found">>))
       ELSE IF ~SecretMatches(FindOne(orders, ObjectId(order_id)), client_secret)
         THEN Respond(t, HTTPError("confirm_payment", 400,
                                   <<"Invalid client secret">>))
       ELSE Goto(t, "confirm_update", NoLoc,
                 ConfirmReq(order_id, client_secret, success))
    /\ UNCHANGED <<products, orders, nextOid>>

\* db["order"].update_one(..., {"$set": {"status": new_status}}) and the response
ConfirmUpdate(t) ==
    /\ pc[t] = "confirm_update"
    /\ LET new_status == NewStatus(req[t].success) IN
       /\ orders' = UpdateOneStatus(orders, ObjectId(req[t].order_id), new_status)
       /\ Respond(t, [op |-> "confirm_payment", code |-> 200,
                      order_id |-> req[t].order_id,
                      status |-> new_status])
    /\ UNCHANGED <<products, nextOid, nreq>>

----------------------------------------------------------------------------

Next ==
    \E t \in Workers :
        \/ \E force \in BOOLEAN : SeedCount(t, force)
        \/ SeedDelete(t)
        \/ SeedInsert(t)
        \/ SeedReturn(t)
        \/ \E p \in ProductInputs : CreateInsert(t, p)
        \/ CreateFind(t)
        \/ \E items \in SeqsUpTo(CheckoutItems, MaxItems), c \in Customers :
              CheckoutStart(t, items, c)
        \/ CheckoutNext(t)
        \/ \E o \in OrderRefs, s \in SecretRefs, success \in BOOLEAN :
              ConfirmFind(t, o, s, success)
        \/ ConfirmUpdate(t)

Spec == Init /\ [][Next]_vars

----------------------------------------------------------------------------
(* Properties. *)

\* the step is one of checkout for worker t that priced an item and goes on
CheckoutPriced(t) ==
    /\ pc'[t] = "checkout"
    /\ pc[t] # "checkout" \/ loc'[t] # loc[t]

\* the step is one of checkout for worker t that answered 200 (the order id
\* of the response is not yet in the collection before the step)
CheckoutAnswered(t) ==
    /\ resp'[t].op = "checkout"
    /\ resp'[t].code = 200
    /\ ObjectId(resp'[t].order_id) \notin DOMAIN orders

\* the items checkout has priced before the step
PreparedBefore(t) == IF pc[t] = "checkout" THEN loc[t].prepared ELSE <<>>

\* sum of unit price times quantity over a list of order items
RECURSIVE SumPriceTimesQuantity(_)
SumPriceTimesQuantity(items) ==
    IF items = <<>> THEN 0
    ELSE Head(items).unit_price_cents * Head(items).quantity
         + SumPriceTimesQuantity(Tail(items))

\* sum of the stored subtotals of a list of order items
RECURSIVE SumSubtotals(_)
SumSubtotals(items) ==
    IF items = <<>> THEN 0
    ELSE Head(items).subtotal_cents + SumSubtotals(Tail(items))

\* C1: every item checkout prices carries the requested product and quantity
\* and the catalog price read at that moment; a checkout that answers 200 has
\* priced every requested item, returns as amount_cents the sum of those
\* prices times quantities, and has stored a new order whose total_cents is
\* that amount.
C1_CheckoutAmount ==
    [][\A t \in Workers :
        /\ CheckoutPriced(t) =>
             LET k == Len(loc'[t].prepared)
                 it == loc'[t].prepared[k]
                 asked == req'[t].items[k]
             IN  /\ k = Len(PreparedBefore(t)) + 1
                 /\ SubSeq(loc'[t].prepared, 1, k - 1) = PreparedBefore(t)
                 /\ it.quantity = asked.quantity
                 /\ ObjectId(it.product_id) = ObjectId(asked.product_id)
                 /\ it.unit_price_cents =
                        products[ObjectId(asked.product_id)].price_cents
        /\ CheckoutAnswered(t) =>
             /\ pc[t] = "checkout" => Len(loc[t].prepared) = Len(req[t].items)
             /\ resp'[t].amount_cents = SumPriceTimesQuantity(PreparedBefore(t))
             /\ LET o == ObjectId(resp'[t].order_id)
                IN  /\ o \in DOMAIN orders'
                    /\ orders'[o].total_cents = resp'[t].amount_cents
                    /\ orders'[o].items = PreparedBefore(t)
    ]_vars

\* a checkout of the same product twice (2 x 8900 + 2 x 8900) was answered
C1_Witness ==
    \E t \in Workers :
        /\ resp[t].op = "checkout"
        /\ resp[t].code = 200
        /\ resp[t].amount_cents = 35600
        /\ ObjectId(resp[t].order_id) \in DOMAIN orders
        /\ Len(orders[ObjectId(resp[t].order_id)].items) = 2

\* C2: in every stored order each item's subtotal_cents is its
\* unit_price_cents times its quantity, and total_cents is the sum of the
\* items' subtotal_cents.
C2_OrderArithmetic ==
    \A o \in DOMAIN orders :
        /\ \A k \in 1..Len(orders[o].items) :
             orders[o].items[k].subtotal_cents =
                orders[o].items[k].unit_price_cents * orders[o].items[k].quantity
        /\ orders[o].total_cents = SumSubtotals(orders[o].items)

\* a two-item order of different products was stored and later confirmed
C2_Witness ==
    \E o \in DOMAIN orders :
        /\ Len(orders[o].items) = 2
        /\ orders[o].items[1].product_id # orders[o].items[2].product_id
        /\ orders[o].total_cents = 20800
        /\ orders[o].status = "paid"

\* the product an id string names cannot be ordered from the catalog now
NotOrderable(product_id) ==
    \/ ~IsValidId(product_id)
    \/ ObjectId(product_id) \notin DOMAIN products
    \/ ~products[ObjectId(product_id)].in_stock

\* the checkout of worker t for these items fails with 400 naming the first
\* item that cannot be ordered, and stores nothing
RejectedNamingFirst(t, items) ==
    LET first == CHOOSE k \in 1..Len(items) :
                    /\ NotOrderable(items[k].product_id)
                    /\ \A j \in 1..(k - 1) : ~NotOrderable(items[j].product_id)
    IN  /\ resp'[t].code = 400
        /\ resp'[t].detail = <<"Product unavailable", items[first].product_id>>
        /\ orders' = orders

\* C3: a checkout that is answered while one of its items names a product id
\* that is not in the catalog, or a product that is out of stock, is answered
\* 400 with the first such product id in the detail, and stores no order.
C3_UnavailableRejected ==
    [][\A t \in Workers :
        /\ \A items \in SeqsUpTo(CheckoutItems, MaxItems), c \in Customers :
             ( /\ CheckoutStart(t, items, c)
               /\ pc'[t] = "done"
               /\ \E k \in 1..Len(items) : NotOrderable(items[k].product_id) )
             => RejectedNamingFirst(t, items)
        /\ ( /\ CheckoutNext(t)
             /\ pc'[t] = "done"
             /\ \E k \in 1..Len(req[t].items) :
                    NotOrderable(req[t].items[k].product_id) )
           => RejectedNamingFirst(t, req[t].items)
    ]_vars

\* C4: confirm_payment for a stored order with a client_secret other than the
\* stored one is answered 400 at once and changes no order, whatever success
\* and the order's status are.
C4_MismatchRejected ==
    [][\A t \in Workers, o \in OrderRefs, s \in SecretRefs, b \in BOOLEAN :
        ( /\ Free(t)
          /\ IsValidId(o)
          /\ ObjectId(o) \in DOMAIN orders
          /\ orders[ObjectId(o)].client_secret # s
          /\ ConfirmFind(t, o, s, b) )
        => /\ pc'[t] = "done"
           /\ resp'[t].op = "confirm_payment"
           /\ resp'[t].code = 400
           /\ orders' = orders
    ]_vars

\* a confirmation was refused for its secret while the only order was paid
C4_Witness ==
    \E t \in Workers :
        /\ resp[t].op = "confirm_payment"
        /\ resp[t].code = 400
        /\ Cardinality(DOMAIN orders) = 1
        /\ \A o \in DOMAIN orders : orders[o].status = "paid"

\* C5: confirm_payment with the stored secret goes on to its update whatever
\* the order's status is; the update sets the stored status to paid when
\* success is true and to failed when it is false, and the response carries
\* that status.
C5_ConfirmSetsStatus ==
    [][\A t \in Workers :
        /\ \A o \in OrderRefs, s \in SecretRefs, b \in BOOLEAN :
             ( /\ Free(t)
               /\ IsValidId(o)
               /\ ObjectId(o) \in DOMAIN orders
               /\ orders[ObjectId(o)].client_secret = s
               /\ ConfirmFind(t, o, s, b) )
             => /\ pc'[t] = "confirm_update"
                /\ req'[t] = ConfirmReq(o, s, b)
        /\ ConfirmUpdate(t) =>
             LET o == ObjectId(req[t].order_id)
                 written == IF req[t].success THEN "paid" ELSE "failed"
             IN  /\ o \in DOMAIN orders'
                 /\ orders'[o].status = written
                 /\ resp'[t].code = 200
                 /\ resp'[t].order_id = req[t].order_id
                 /\ resp'[t].status = written
    ]_vars

\* an order confirmed as paid (the response is still there) now stands failed
C5_Witness ==
    \E t \in Workers :
        /\ resp[t].op = "confirm_payment"
        /\ resp[t].code = 200
        /\ resp[t].status = "paid"
        /\ orders[ObjectId(resp[t].order_id)].status = "failed"

\* C6: a new order is pending, and an order that is paid or failed keeps that
\* status for ever.
C6_TerminalStatus ==
    [][\A o \in DOMAIN orders' :
        /\ o \notin DOMAIN orders => orders'[o].status = "pending"
        /\ (o \in DOMAIN orders /\ orders[o].status \in {"paid", "failed"})
           => orders'[o].status = orders[o].status
    ]_vars

\* C7: no step removes an order or changes anything of it but its status, and
\* the update of confirm_payment touches only the order it names.
C7_OrderFrame ==
    [][/\ \A o \in DOMAIN orders :
            /\ o \in DOMAIN orders'
            /\ [orders'[o] EXCEPT !.status = orders[o].status] = orders[o]
       /\ \A t \in Workers : ConfirmUpdate(t) =>
            \A o \in DOMAIN orders :
                o # ObjectId(req[t].order_id) => orders'[o] = orders[o]
    ]_vars

\* a confirmed order keeps the items of a product the catalog no longer holds
C7_Witness ==
    \E o \in DOMAIN orders :
        /\ orders[o].status # "pending"
        /\ Len(orders[o].items) > 0
        /\ \A k \in 1..Len(orders[o].items) :
             ObjectId(orders[o].items[k].product_id) \notin DOMAIN products

\* C8: seed without force on a catalog that is not empty answers at once with
\* seeded false and the number of products, and leaves the catalog as it was.
C8_SeedSkips ==
    [][\A t \in Workers :
        (Free(t) /\ Cardinality(DOMAIN products) > 0 /\ SeedCount(t, FALSE))
        => /\ pc'[t] = "done"
           /\ resp'[t].op = "seed"
           /\ resp'[t].code = 200
           /\ resp'[t].seeded = FALSE
           /\ resp'[t].count = Cardinality(DOMAIN products)
           /\ products' = products
    ]_vars

\* a seed was skipped on a catalog of one product
C8_Witness ==
    \E t \in Workers :
        /\ resp[t].op = "seed"
        /\ resp[t].code = 200
        /\ ~resp[t].seeded
        /\ resp[t].count = 1
        /\ Cardinality(DOMAIN products) = 1

\* the collection holds the three demo records, each once, and nothing else
ExactlyDemo(coll) ==
    /\ Cardinality(DOMAIN coll) = Len(SeedData)
    /\ \A i \in 1..Len(SeedData) :
         Cardinality({o \in DOMAIN coll : coll[o] = SeedData[i]}) = 1

\* C9: when seed with force answers (seeded true), the catalog holds exactly
\* the three demo records and the count returned is 3.
C9_ForceSeedExact ==
    [][\A t \in Workers :
        (SeedReturn(t) /\ req[t].force)
        => /\ resp'[t].seeded
           /\ resp'[t].count = 3
           /\ ExactlyDemo(products')
    ]_vars

----------------------------------------------------------------------------
(* Seeding alone: an empty catalog and nothing but seed requests without    *)
(* force, their store calls interleaved.                                   *)

SeedInit == Init /\ products = EmptyMap

SeedNext ==
    \E t \in Workers :
        \/ SeedCount(t, FALSE)
        \/ SeedInsert(t)
        \/ SeedReturn(t)

SeedSpec == SeedInit /\ [][SeedNext]_vars

\* C10: from an empty catalog, once every seed request without force has been
\* answered, the catalog holds exactly the three demo records, each once.
C10_SeedIdempotent ==
    (nreq > 0 /\ \A t \in Workers : Free(t)) => ExactlyDemo(products)

----------------------------------------------------------------------------
(* The catalog alone: seeding, creating and listing products.  list_products *)
(* writes nothing, so the other handlers behave the same with or without it. *)

CatalogNext ==
    \E t \in Workers :
        \/ \E force \in BOOLEAN : SeedCount(t, force)
        \/ SeedDelete(t)
        \/ SeedInsert(t)
        \/ SeedReturn(t)
        \/ \E p \in ProductInputs : CreateInsert(t, p)
        \/ CreateFind(t)
        \/ ListProducts(t)

CatalogSpec == Init /\ [][CatalogNext]_vars

\* the last response of worker u is a product it created
Created(u) == resp[u].op = "create_product" /\ resp[u].code = 200

\* C11 (as claimed): every product a create_product answered is in the result
\* of every later list_products, as it was answered.
C11_RoundTripAlways ==
    [][\A t \in Workers : ListProducts(t) =>
        \A u \in Workers \ {t} :
            Created(u) => resp[u].product \in resp'[t].products
    ]_vars

\* C11 (amended): create_product answers with the fields of the request and
\* the id of the document it stored; a later list_products holds that very
\* record as long as the document is still in the collection (no seed with
\* force has deleted it) and the collection holds at most 100 documents.
C11_RoundTrip ==
    [][\A t \in Workers :
        /\ (pc[t] = "create_find" /\ pc'[t] = "done" /\ resp'[t].code = 200) =>
             /\ resp'[t].op = "create_product"
             /\ resp'[t].product =
                  [id |-> loc[t].pid, name |-> req[t].product.name,
                   price_cents |-> req[t].product.price_cents,
                   cacao_percent |-> req[t].product.cacao_percent,
                   in_stock |-> req[t].product.in_stock,
                   stock_qty |-> req[t].product.stock_qty]
             /\ IsValidId(resp'[t].product.id)
             /\ ObjectId(resp'[t].product.id) # NoOid
        /\ ListProducts(t) =>
             \A u \in Workers \ {t} :
                ( /\ Created(u)
                  /\ ObjectId(resp[u].product.id) \in DOMAIN products
                  /\ Cardinality(DOMAIN products) <= ListLimit )
                => resp[u].product \in resp'[t].products
    ]_vars

\* a product was created and a list answered since holds it among others
C11_Witness ==
    \E t, u \in Workers :
        /\ Created(u)
        /\ resp[t].op = "list_products"
        /\ resp[t].code = 200
        /\ resp[u].product \in resp[t].products
        /\ Cardinality(resp[t].products) = 4

----------------------------------------------------------------------------
(* Order status *)

\* C12: "canceled" is never reached: every persisted order is pending, paid
\* or failed.
C12_StatusDomain ==
    \A o \in DOMAIN orders : orders[o].status \in {"pending", "paid", "failed"}

\* a checkout has stored a pending order next to one a confirmation declined
C12_Witness ==
    \E o1, o2 \in DOMAIN orders :
        /\ orders[o1].status = "failed"
        /\ orders[o2].status = "pending"
        /\ \E t \in Workers : resp[t].op = "confirm_payment" /\ resp[t].code = 200

----------------------------------------------------------------------------
(* Concurrent confirmations *)

\* worker t holds a confirmation of order_id that passed the secret check and
\* has its update_one still to run
Confirming(t, order_id) ==
    pc[t] = "confirm_update" /\ req[t].order_id = order_id

\* the last response of worker u: order_id confirmed with the given status
Confirmed(u, order_id, status) ==
    /\ resp[u].op = "confirm_payment"
    /\ resp[u].code = 200
    /\ resp[u].order_id = order_id
    /\ resp[u].status = status

\* the step of worker t answers its confirmation 200 with the status its
\* success asks for, and leaves that status stored
WritesOwnStatus(t) ==
    /\ resp'[t].op = "confirm_payment"
    /\ resp'[t].code = 200
    /\ resp'[t].order_id = req[t].order_id
    /\ resp'[t].status = NewStatus(req[t].success)
    /\ orders'[ObjectId(req[t].order_id)].status = NewStatus(req[t].success)

\* C13: of two confirmations of one order running together with opposite
\* success, both are answered 200 with the status each wrote, the stored
\* status is that of the update_one applied last, and the response of the
\* first then differs from the stored status.
C13_LastWriteWins ==
    [][\A t \in Workers : \A u \in Workers \ {t} :
        /\ ( /\ pc[t] = "confirm_update"
             /\ Confirming(u, req[t].order_id)
             /\ req[u].success # req[t].success
             /\ ConfirmUpdate(t) )
           => /\ WritesOwnStatus(t)
              /\ pc'[u] = "confirm_update"
              /\ req'[u] = req[u]
        /\ ( /\ pc[t] = "confirm_update"
             /\ Confirmed(u, req[t].order_id, NewStatus(~req[t].success))
             /\ ConfirmUpdate(t) )
           => /\ WritesOwnStatus(t)
              /\ resp'[u] = resp[u]
              /\ resp'[u].status # orders'[ObjectId(req[t].order_id)].status
    ]_vars

\* both confirmations of one order were answered 200, one with paid and one
\* with failed, and the order stands failed
C13_Witness ==
    \E t \in Workers, u \in Workers, o \in DOMAIN orders :
        /\ Confirmed(t, StrOf(o), "paid")
        /\ Confirmed(u, StrOf(o), "failed")
        /\ orders[o].status = "failed"

----------------------------------------------------------------------------
(* Checkout and stock.  The database holds one product, created in stock   *)
(* with a single piece: what POST /api/products leaves on an empty store.  *)

LowStockProduct == CHOOSE p \in ProductInputs : p.in_stock /\ p.stock_qty = 1

StockInit ==
    /\ products = CreateDocument(EmptyMap, 1, LowStockProduct)
    /\ orders = EmptyMap
    /\ nextOid = 2
    /\ pc = [t \in Workers |-> "idle"]
    /\ req = [t \in Workers |-> NoReq]
    /\ loc = [t \in Workers |-> NoLoc]
    /\ resp = [t \in Workers |-> NoResp]
    /\ nreq = 0

StockSpec == StockInit /\ [][Next]_vars

\* the step accepts a checkout for worker t and runs it up to its first
\* store call
CheckoutAccepted(t) ==
    /\ Free(t)
    /\ nreq' = nreq + 1
    /\ pc'[t] = "checkout" \/ (pc'[t] = "done" /\ resp'[t].op = "checkout")
    /\ \E items \in SeqsUpTo(CheckoutItems, MaxItems), c \in Customers :
         CheckoutStart(t, items, c)

\* product_id names a stored product that is in stock
Orderable(product_id) ==
    /\ IsValidId(product_id)
    /\ ObjectId(product_id) \in DOMAIN products
    /\ products[ObjectId(product_id)].in_stock

\* the number of pieces of product_id in a list of order items
RECURSIVE Pieces(_, _)
Pieces(items, product_id) ==
    IF items = <<>> THEN 0
    ELSE (IF Head(items).product_id = product_id THEN Head(items).quantity ELSE 0)
         + Pieces(Tail(items), product_id)

\* C14: no step of checkout changes the product collection, and stock_qty
\* plays no part: an item of quantity >= 1 naming a stored product in stock
\* is priced and the loop goes on, a checkout whose items are all priced is
\* answered 200, and a checkout is refused only for a malformed id, a product
\* missing or out of stock, or a quantity below 1.
C14_StockIgnored ==
    [][\A t \in Workers :
        /\ (CheckoutAccepted(t) \/ CheckoutNext(t)) => products' = products
        /\ ( /\ pc[t] = "checkout"
             /\ loc[t].i <= Len(req[t].items)
             /\ Orderable(req[t].items[loc[t].i].product_id)
             /\ req[t].items[loc[t].i].quantity >= 1
             /\ CheckoutNext(t) )
           => /\ pc'[t] = "checkout"
              /\ loc'[t].i = loc[t].i + 1
        /\ ( /\ pc[t] = "checkout"
             /\ loc[t].i > Len(req[t].items)
             /\ CheckoutNext(t) )
           => /\ resp'[t].op = "checkout"
              /\ resp'[t].code = 200
        /\ ( /\ CheckoutAccepted(t) \/ CheckoutNext(t)
             /\ pc'[t] = "done"
             /\ resp'[t].code # 200 )
           => \/ /\ resp'[t].code = 400
                 /\ ~Orderable(resp'[t].detail[2])
              \/ /\ resp'[t].code = 500
                 /\ resp'[t].detail[1] = "InvalidId"
                 /\ ~IsValidId(resp'[t].detail[2])
              \/ /\ resp'[t].code = 500
                 /\ resp'[t].detail[1] = "ValidationError"
                 /\ resp'[t].detail[2] = "OrderItem"
                 /\ resp'[t].detail[3].quantity < 1
    ]_vars

\* two checkouts of the product with one piece in stock were both answered
\* 200, four pieces or more are ordered, and the product is as it was
C14_Witness ==
    /\ \A t \in Workers : resp[t].op = "checkout" /\ resp[t].code = 200
    /\ Cardinality(DOMAIN orders) = 2
    /\ \A o \in DOMAIN orders : Pieces(orders[o].items, StrOf(1)) >= 2
    /\ products = CreateDocument(EmptyMap, 1, LowStockProduct)
    /\ products[1].stock_qty = 1

----------------------------------------------------------------------------
(* Errors of create_product *)

\* C15: when the find_one of create_product does not find the product just
\* inserted, the request is answered 500 and the catalog is left as it is;
\* create_product never answers 404 or any other client error.
C15_RefetchMiss500 ==
    [][\A t \in Workers :
        /\ ( /\ pc[t] = "create_find"
             /\ ~Found(products, ObjectId(loc[t].pid))
             /\ CreateFind(t) )
           => /\ pc'[t] = "done"
              /\ resp'[t].op = "create_product"
              /\ resp'[t].code = 500
              /\ products' = products
        /\ resp'[t].op = "create_product" => resp'[t].code \in {200, 500}
    ]_vars

\* a create_product was answered 500 after a seed with force emptied the
\* catalog under it: the product it inserted is gone
C15_Witness ==
    \E t \in Workers :
        /\ resp[t].op = "create_product"
        /\ resp[t].code = 500
        /\ \A o \in DOMAIN products : products[o].name # "Custom"

----------------------------------------------------------------------------
(* Errors of confirm_payment *)

\* C16: confirm_payment naming an order id that no stored order has is
\* answered 404 at once, whatever secret and success it carries, and changes
\* no order.
C16_AbsentOrder404 ==
    [][\A t \in Workers, o \in OrderRefs, s \in SecretRefs, b \in BOOLEAN :
        ( /\ Free(t)
          /\ ~IsValidId(o) \/ ObjectId(o) \notin DOMAIN orders
          /\ ConfirmFind(t, o, s, b) )
        => /\ pc'[t] = "done"
           /\ resp'[t].op = "confirm_payment"
           /\ resp'[t].code = 404
           /\ orders' = orders
    ]_vars

----------------------------------------------------------------------------
(* Quantities of persisted orders *)

\* the step answers a checkout of worker t with a validation error of
\* OrderItem and stores nothing
RefusedByOrderItem(t) ==
    /\ pc'[t] = "done"
    /\ resp'[t].op = "checkout"
    /\ resp'[t].code = 500
    /\ resp'[t].detail[1] = "ValidationError"
    /\ resp'[t].detail[2] = "OrderItem"
    /\ orders' = orders

\* C17 (as claimed): a checkout whose items include one of quantity <= 0
\* naming an available product is answered 500 and stores no order.
C17_NonPositiveIs500 ==
    [][\A t \in Workers :
        /\ ( /\ pc[t] = "checkout"
             /\ \E k \in 1..Len(req[t].items) :
                   /\ req[t].items[k].quantity <= 0
                   /\ Orderable(req[t].items[k].product_id)
             /\ CheckoutNext(t)
             /\ pc'[t] = "done" )
           => /\ resp'[t].code = 500
              /\ orders' = orders
        /\ \A items \in SeqsUpTo(CheckoutItems, MaxItems), c \in Customers :
             ( /\ Free(t)
               /\ \E k \in 1..Len(items) :
                     /\ items[k].quantity <= 0
                     /\ Orderable(items[k].product_id)
               /\ CheckoutStart(t, items, c)
               /\ pc'[t] = "done" )
             => /\ resp'[t].code = 500
                /\ orders' = orders
    ]_vars

\* C17 (amended): every item of every stored order has quantity >= 1 and
\* every stored order has total_cents >= 0; when the loop of compute_totals
\* reaches an item of quantity <= 0 naming an available product, OrderItem
\* refuses it, the checkout is answered 500 and no order is stored; and no
\* checkout answered with an error stores an order.  (An earlier item that
\* is refused first decides the answer, which is then 400 or 500.)
C17_QuantityValidated ==
    /\ [](\A o \in DOMAIN orders :
            /\ orders[o].total_cents >= 0
            /\ \A k \in 1..Len(orders[o].items) : orders[o].items[k].quantity >= 1)
    /\ [][\A t \in Workers :
            /\ ( /\ pc[t] = "checkout"
                 /\ loc[t].i <= Len(req[t].items)
                 /\ req[t].items[loc[t].i].quantity <= 0
                 /\ Orderable(req[t].items[loc[t].i].product_id)
                 /\ CheckoutNext(t) )
               => RefusedByOrderItem(t)
            /\ \A items \in SeqsUpTo(CheckoutItems, MaxItems), c \in Customers :
                 ( /\ Free(t)
                   /\ Len(items) >= 1
                   /\ items[1].quantity <= 0
                   /\ Orderable(items[1].product_id)
                   /\ CheckoutStart(t, items, c) )
                 => RefusedByOrderItem(t)
            /\ ( /\ CheckoutAccepted(t) \/ CheckoutNext(t)
                 /\ pc'[t] = "done"
                 /\ resp'[t].code # 200 )
               => orders' = orders
       ]_vars

\* a checkout was answered 500 for an item of quantity 0 of a product that
\* is in the catalog and in stock, and no order is stored
C17_Witness ==
    \E t \in Workers :
        /\ resp[t].op = "checkout"
        /\ resp[t].code = 500
        /\ resp[t].detail[1] = "ValidationError"
        /\ resp[t].detail[3].quantity <= 0
        /\ Orderable(resp[t].detail[3].product_id)
        /\ orders = EmptyMap

----------------------------------------------------------------------------
(* Fresh orders and their secrets *)

\* C18: a checkout answered 200 has added exactly one order, under an id no
\* order had, with a client_secret no stored order has (the one returned);
\* the secrets of stored orders are pairwise different; a confirmation of
\* one order carrying the secret of another is answered 400 and changes
\* nothing; and the status of an order changes only in the update_one of a
\* confirmation that carries the id and the secret of that order.
C18_FreshOrderAndSecret ==
    /\ [](\A o1, o2 \in DOMAIN orders :
            o1 # o2 => orders[o1].client_secret # orders[o2].client_secret)
    /\ [][/\ \A t \in Workers : CheckoutAnswered(t) =>
               LET new == ObjectId(resp'[t].order_id) IN
               /\ new \notin DOMAIN orders
               /\ DOMAIN orders' = DOMAIN orders \cup {new}
               /\ \A o \in DOMAIN orders :
                    /\ orders'[o] = orders[o]
                    /\ orders[o].client_secret # orders'[new].client_secret
               /\ resp'[t].client_secret = orders'[new].client_secret
          /\ \A t \in Workers, o \in OrderRefs, s \in SecretRefs, b \in BOOLEAN :
               ( /\ Free(t)
                 /\ IsValidId(o)
                 /\ ObjectId(o) \in DOMAIN orders
                 /\ \E other \in DOMAIN orders \ {ObjectId(o)} :
                       orders[other].client_secret = s
                 /\ ConfirmFind(t, o, s, b) )
               => /\ resp'[t].op = "confirm_payment"
                  /\ resp'[t].code = 400
                  /\ orders' = orders
          /\ \A o \in DOMAIN orders :
               (o \in DOMAIN orders' /\ orders'[o].status # orders[o].status)
               => \E t \in Workers :
                     /\ ConfirmUpdate(t)
                     /\ req[t].order_id = StrOf(o)
                     /\ req[t].client_secret = orders[o].client_secret
       ]_vars

\* two checkouts of the same items for the same customer were both answered
\* 200: two orders alike in everything but the secret, under different ids
C18_Witness ==
    \E o1, o2 \in DOMAIN orders :
        /\ o1 # o2
        /\ Len(orders[o1].items) >= 1
        /\ orders[o1].client_secret # orders[o2].client_secret
        /\ [orders[o1] EXCEPT !.client_secret = orders[o2].client_secret] = orders[o2]
        /\ \A t \in Workers : resp[t].op = "checkout" /\ resp[t].code = 200
        /\ resp[1].order_id # resp[2].order_id
        /\ resp[1].client_secret # resp[2].client_secret

====
